---- MODULE Spec2Model ----
(***************************************************************************)
(* Model of Scripnya.py: the proxy validation at startup, the establish    *)
(* task render_profile_info, the heartbeat handle_ping and the control     *)
(* loop of main().                                                         *)
(*                                                                         *)
(* Python values are modelled by integers and records:                     *)
(*   - a proxy (one line of proxies.txt) is a number in 1..NumProxies;     *)
(*   - None, a missing dict key and every falsy value of a key are None;   *)
(*   - a dict of account data is [uid, browser_id]; {} is EmptyDict;       *)
(*   - a Task object is identified by its creation number;                 *)
(*   - a dict key is [kind, id]: a str key and a Task key are never equal. *)
(***************************************************************************)
EXTENDS Integers, Sequences, FiniteSets, TLC

\* ---------------------------------------------------------------- bounds
NumProxies == 3      \* distinct proxy addresses that may appear in the file
MaxLen     == 3      \* lines of proxies.txt

\* ------------------------------------------------------------- constants
CONNECTED       == 1
DISCONNECTED    == 2
NONE_CONNECTION == 3
None            == 0
HTTP_OK         == 200

Proxies == 1..NumProxies

RECURSIVE SeqsUpTo(_, _)
SeqsUpTo(S, n) ==
    IF n = 0 THEN {<<>>}
    ELSE LET shorter == SeqsUpTo(S, n - 1)
         IN  shorter \cup {Append(s, x) : s \in {q \in shorter : Len(q) = n - 1}, x \in S}

\* a proxy is an opaque address, so the lists are taken up to renaming: the
\* k-th distinct address of a list is named k (repeated lines are kept)
FirstUse(l) ==
    \A i \in DOMAIN l : \A p \in 1..(l[i] - 1) : \E j \in 1..(i - 1) : l[j] = p

\* the contents proxies.txt may have: file.read().splitlines()
CandidateLists == {l \in SeqsUpTo(Proxies, MaxLen) : FirstUse(l)}

\* ------------------------------------------------------------ dict values
EmptyDict == [uid |-> None, browser_id |-> None]

\* bool(d) of a dict: non-empty
Truthy(d) == d # EmptyDict

\* dict.get(key): None for a missing key
GetUid(d) == d.uid
GetBrowserId(d) == d.browser_id

\* the "data" payloads the remote service may answer create-session with:
\* nothing, or the account of the token
SessionData == {EmptyDict, [uid |-> 1, browser_id |-> None]}

\* session.json before the program starts: missing, not readable, not JSON,
\* or a JSON object (an earlier run's record, with or without a device id)
SessionFiles ==
    { [kind |-> "nofile", data |-> EmptyDict],
      [kind |-> "unreadable", data |-> EmptyDict],
      [kind |-> "malformed", data |-> EmptyDict],
      [kind |-> "json", data |-> EmptyDict],
      [kind |-> "json", data |-> [uid |-> 1, browser_id |-> None]],
      [kind |-> "json", data |-> [uid |-> 1, browser_id |-> 1]] }

\* ---------------------------------------------------------- HTTP responses
\* kind "neterr": connection error or timeout raised by aiohttp
\* kind "http": a response with a status; body "nojson" (json() raises),
\* "null" (JSON null) or "obj" (an object, with or without "code")
NetErr == [kind |-> "neterr", status |-> 0, body |-> "none", hascode |-> FALSE, code |-> 0, data |-> EmptyDict]

HttpNoBody(st) == [kind |-> "http", status |-> st, body |-> "nojson", hascode |-> FALSE, code |-> 0, data |-> EmptyDict]

HttpObj(st, hc, c, d) == [kind |-> "http", status |-> st, body |-> "obj", hascode |-> hc, code |-> c, data |-> d]

HttpNull(st) == [kind |-> "http", status |-> st, body |-> "null", hascode |-> FALSE, code |-> 0, data |-> EmptyDict]

Statuses == {HTTP_OK, 403}

\* what a GET of the ping endpoint may produce (only the status is read)
ValidateResponses == {NetErr} \cup {HttpNoBody(st) : st \in Statuses}

VARIABLES
    pc,              \* position of main(): "load","token","validate","wait","exited","crashed"
    exc,             \* the exception main() ended with, "none" while it runs
    all_proxies,     \* main: all_proxies
    active_proxies,  \* main: active_proxies
    validated,       \* log of the is_valid_proxy calls of the startup loop
    tasks,           \* main: the dict tasks
    task,            \* the Task objects created so far, by creation number
    done,            \* the set asyncio.wait returned in the current cycle
    before,          \* active_proxies and all_proxies when that wait returned
    cycles,          \* polling cycles that ran to the sleep of line 189
    status_connect,  \* global status_connect
    browser_id,      \* global browser_id
    account_info,    \* global account_info
    session_file,    \* contents of session.json
    uuids,           \* device identities in existence
    pings            \* log of the handle_ping calls

vars == <<pc, exc, all_proxies, active_proxies, validated, tasks, task, done, before,
          cycles, status_connect, browser_id, account_info, session_file, uuids, pings>>

globals == <<status_connect, browser_id, account_info, session_file, uuids, pings>>

\* ------------------------------------------------------------------ Init
Init ==
    /\ pc = "load"
    /\ exc = "none"
    /\ all_proxies = <<>>
    /\ active_proxies = <<>>
    /\ validated = <<>>
    /\ tasks = <<>>
    /\ task = <<>>
    /\ done = {}
    /\ before = [active |-> <<>>, all |-> <<>>]
    /\ cycles = 0
    /\ status_connect = NONE_CONNECTION
    /\ browser_id = None
    /\ account_info = EmptyDict
    /\ session_file \in SessionFiles
    /\ uuids = 1
    /\ pings = <<>>

\* ------------------------------------------------------------- startup
\* load_proxies: the lines of the file, or SystemExit when it cannot be read
load_proxies(readable, lines) ==
    IF readable THEN [exc |-> "none", ret |-> lines]
    ELSE [exc |-> "SystemExit", ret |-> <<>>]

LoadProxies ==
    /\ pc = "load"
    /\ \E readable \in BOOLEAN, lines \in CandidateLists :
          LET r == load_proxies(readable, lines)
          IN  /\ (~readable => lines = <<>>)
              /\ all_proxies' = r.ret
              /\ exc' = r.exc
              /\ pc' = IF r.exc = "none" THEN "token" ELSE "exited"
    /\ UNCHANGED <<active_proxies, validated, tasks, task, done, before, cycles, globals>>

\* lines 153-156: an empty token ends the program
ReadToken ==
    /\ pc = "token"
    /\ \E token \in {"", "tok"} :
          IF token = ""
          THEN pc' = "exited" /\ exc' = "SystemExit"
          ELSE pc' = "validate" /\ exc' = exc
    /\ UNCHANGED <<all_proxies, active_proxies, validated, tasks, task, done, before, cycles, globals>>

\* is_valid_proxy without its try/except: the network error reaches the caller
is_valid_proxy_raising(resp) ==
    IF resp.kind = "neterr"
    THEN [exc |-> "ClientError", ret |-> FALSE]
    ELSE IF resp.status = HTTP_OK
         THEN [exc |-> "none", ret |-> TRUE]
         ELSE [exc |-> "none", ret |-> FALSE]

\* is_valid_proxy (lines 84-94): one GET; True only for status 200; every
\* exception is caught and gives False
is_valid_proxy(resp) ==
    IF resp.kind = "neterr"
    THEN [exc |-> "none", ret |-> FALSE]
    ELSE IF resp.status = HTTP_OK
         THEN [exc |-> "none", ret |-> TRUE]
         ELSE [exc |-> "none", ret |-> FALSE]

\* the response was an HTTP success
IsSuccess(resp) == resp.kind = "http" /\ resp.status = HTTP_OK

\* the append without its condition
AppendAlways(active, proxy, ok) == Append(active, proxy)

\* lines 160-161: if await is_valid_proxy(...): active_proxies.append(proxy)
AppendIfValid(active, proxy, ok) ==
    IF ok THEN Append(active, proxy) ELSE active

\* lines 159-161: one iteration of the validation loop
Validate ==
    /\ pc = "validate"
    /\ Len(validated) < Len(all_proxies)
    /\ \E resp \in ValidateResponses :
          LET proxy == all_proxies[Len(validated) + 1]
              r == is_valid_proxy(resp)
          IN  /\ validated' = Append(validated,
                     [proxy |-> proxy, success |-> IsSuccess(resp), ret |-> r.ret, exc |-> r.exc])
              /\ IF r.exc # "none"
                 THEN /\ pc' = "crashed"
                      /\ exc' = r.exc
                      /\ UNCHANGED active_proxies
                 ELSE /\ active_proxies' = AppendIfValid(active_proxies, proxy, r.ret)
                      /\ UNCHANGED <<pc, exc>>
    /\ UNCHANGED <<all_proxies, tasks, task, done, before, cycles, globals>>

\* ------------------------------------------------------------------ tasks
StrKey(p) == [kind |-> "str", id |-> p]
TaskKey(t) == [kind |-> "Task", id |-> t]

\* the value a coroutine returned
PyNone == [none |-> TRUE, val |-> EmptyDict]
Val(d) == [none |-> FALSE, val |-> d]

\* asyncio.create_task(render_profile_info(proxy, token)): a Task that has not
\* run yet; load is the state of session.json its load_session_info saw,
\* device the identity it generated, posts the create-session requests it
\* issued, answer what came back, saved whether it wrote session.json
NewTask(proxy) ==
    [proxy |-> proxy, pc |-> "start", result |-> PyNone, exc |-> "none",
     load |-> "notyet", device |-> None, posts |-> 0, answer |-> "none", saved |-> FALSE]

\* tasks[proxy] = asyncio.create_task(...) on the pair st = [tasks, task]
create_task(st, proxy) ==
    [tasks |-> (StrKey(proxy) :> TaskKey(Len(st.task) + 1)) @@ st.tasks,
     task  |-> Append(st.task, NewTask(proxy))]

\* lines 170-171: for proxy in active_proxies: tasks[proxy] = create_task(...)
RECURSIVE CreateAll(_, _)
CreateAll(st, proxies) ==
    IF proxies = <<>> THEN st
    ELSE CreateAll(create_task(st, Head(proxies)), Tail(proxies))

\* the test of line 163 never taken
NeverEmpty(active) == FALSE

\* line 163: if not active_proxies
NoUsableProxies(active) == active = <<>>

\* lines 163-171: after the validation loop, exit without a valid proxy,
\* else create one task per active proxy and wait for the first to complete
StartTasks ==
    /\ pc = "validate"
    /\ Len(validated) = Len(all_proxies)
    /\ IF NoUsableProxies(active_proxies)
       THEN /\ pc' = "exited"
            /\ exc' = "SystemExit"
            /\ UNCHANGED <<tasks, task>>
       ELSE LET st == CreateAll([tasks |-> tasks, task |-> task], active_proxies)
            IN  /\ tasks' = st.tasks
                /\ task' = st.task
                /\ pc' = "wait"
                /\ UNCHANGED exc
    /\ UNCHANGED <<all_proxies, active_proxies, validated, done, before, cycles, globals>>

\* ------------------------------------------------- render_profile_info
\* valid_resp (lines 39-42): ValueError for a falsy response, a response
\* without "code" or a negative code
valid_resp(resp) ==
    IF resp.body # "obj" \/ ~resp.hascode \/ resp.code < 0
    THEN "ValueError"
    ELSE "none"

\* load_session_info without its try/except: the error of open or json.load
\* reaches the task
load_session_info_raising(f) ==
    IF f.kind = "nofile"
    THEN [exc |-> "none", ret |-> PyNone]
    ELSE IF f.kind = "json"
         THEN [exc |-> "none", ret |-> Val(f.data)]
         ELSE [exc |-> "JSONDecodeError", ret |-> PyNone]

\* load_session_info (lines 65-75): the parsed file, None when the file is
\* missing or when reading or parsing it raises
load_session_info(f) ==
    IF f.kind = "nofile"
    THEN [exc |-> "none", ret |-> PyNone]
    ELSE IF f.kind = "json"
         THEN [exc |-> "none", ret |-> Val(f.data)]
         ELSE [exc |-> "none", ret |-> PyNone]

\* save_session_info (lines 78-81): json.dump(data) over the file
save_session_info(data) == [kind |-> "json", data |-> data]

\* uuidv4(): a value no earlier identity equals; n identities exist
uuidv4(n) == n + 1

\* the create-session answers: no answer, a non-200 status, and 200 with a
\* body that is not JSON, null, without code, or with code -1, 0 or 1
SessionResponses ==
    {NetErr, HttpNoBody(403), HttpNoBody(HTTP_OK), HttpNull(HTTP_OK),
     HttpObj(HTTP_OK, FALSE, 0, EmptyDict), HttpObj(HTTP_OK, TRUE, -1, EmptyDict)}
    \cup {HttpObj(HTTP_OK, TRUE, c, d) : c \in {0, 1}, d \in SessionData}

\* the tasks the event loop has not run yet: create_task queues them in
\* creation order, ahead of every callback registered later
Unstarted == {t \in DOMAIN task : task[t].pc = "start"}

\* lines 129-136: the task's first run, up to the await of the POST; a
\* truthy loaded record is adopted and returned without any await
TaskStart(t) ==
    /\ pc = "wait"
    /\ t \in DOMAIN task
    /\ task[t].pc = "start"
    /\ \A u \in 1..(t - 1) : task[u].pc # "start"
    /\ LET r == load_session_info(session_file)
           seen == [task[t] EXCEPT !.load = session_file.kind]
       IN  IF r.exc # "none"
           THEN /\ task' = [task EXCEPT ![t] = [seen EXCEPT !.pc = "raised", !.exc = r.exc]]
                /\ UNCHANGED <<account_info, browser_id, uuids>>
           ELSE IF ~r.ret.none /\ Truthy(r.ret.val)
                THEN /\ account_info' = r.ret.val
                     /\ browser_id' = GetBrowserId(r.ret.val)
                     /\ task' = [task EXCEPT ![t] =
                                   [seen EXCEPT !.pc = "done", !.result = Val(r.ret.val)]]
                     /\ UNCHANGED uuids
                ELSE /\ browser_id' = uuidv4(uuids)
                     /\ uuids' = uuids + 1
                     /\ task' = [task EXCEPT ![t] =
                                   [seen EXCEPT !.pc = "posting", !.device = uuidv4(uuids),
                                                 !.posts = @ + 1]]
                     /\ UNCHANGED account_info
    /\ UNCHANGED <<pc, exc, all_proxies, active_proxies, validated, tasks, done, before, cycles,
                   status_connect, session_file, pings>>

\* what came back from a request: no answer ("neterr"), a status other than
\* 200 ("refused"), a 200 whose body is not an object with a code >= 0
\* ("invalid"), or a 200 with such a body ("ok")
AnswerKind(resp) ==
    IF resp.kind = "neterr" THEN "neterr"
    ELSE IF resp.status # HTTP_OK THEN "refused"
    ELSE IF resp.body = "obj" /\ resp.hascode /\ resp.code >= 0 THEN "ok"
    ELSE "invalid"

\* create_session catching its errors: a network error or an invalid
\* response returns account_info instead of raising
create_session_swallow(resp, acct) ==
    IF resp.kind = "neterr"
    THEN [exc |-> "none", acct |-> acct, save |-> FALSE, ret |-> Val(acct)]
    ELSE IF resp.status = HTTP_OK
         THEN IF resp.body = "nojson" \/ valid_resp(resp) # "none"
              THEN [exc |-> "none", acct |-> acct, save |-> FALSE, ret |-> Val(acct)]
              ELSE [exc |-> "none", acct |-> resp.data,
                    save |-> GetUid(resp.data) # None, ret |-> Val(resp.data)]
         ELSE [exc |-> "none", acct |-> acct, save |-> FALSE, ret |-> Val(acct)]

\* create_session returning None when the status is not 200
create_session_none(resp, acct) ==
    IF resp.kind = "neterr"
    THEN [exc |-> "ClientError", acct |-> acct, save |-> FALSE, ret |-> PyNone]
    ELSE IF resp.status = HTTP_OK
         THEN IF resp.body = "nojson"
              THEN [exc |-> "ContentTypeError", acct |-> acct, save |-> FALSE, ret |-> PyNone]
              ELSE IF valid_resp(resp) # "none"
                   THEN [exc |-> valid_resp(resp), acct |-> acct, save |-> FALSE, ret |-> PyNone]
                   ELSE [exc |-> "none", acct |-> resp.data,
                         save |-> GetUid(resp.data) # None, ret |-> Val(resp.data)]
         ELSE [exc |-> "none", acct |-> acct, save |-> FALSE, ret |-> PyNone]

\* create_session without the save of line 142
create_session_nosave(resp, acct) ==
    IF resp.kind = "neterr"
    THEN [exc |-> "ClientError", acct |-> acct, save |-> FALSE, ret |-> PyNone]
    ELSE IF resp.status = HTTP_OK
         THEN IF resp.body = "nojson"
              THEN [exc |-> "ContentTypeError", acct |-> acct, save |-> FALSE, ret |-> PyNone]
              ELSE IF valid_resp(resp) # "none"
                   THEN [exc |-> valid_resp(resp), acct |-> acct, save |-> FALSE, ret |-> PyNone]
                   ELSE [exc |-> "none", acct |-> resp.data, save |-> FALSE, ret |-> Val(resp.data)]
         ELSE [exc |-> "none", acct |-> acct, save |-> FALSE, ret |-> Val(acct)]

\* create_session saving whatever data came back, with or without a uid
create_session_savealways(resp, acct) ==
    IF resp.kind = "neterr"
    THEN [exc |-> "ClientError", acct |-> acct, save |-> FALSE, ret |-> PyNone]
    ELSE IF resp.status = HTTP_OK
         THEN IF resp.body = "nojson"
              THEN [exc |-> "ContentTypeError", acct |-> acct, save |-> FALSE, ret |-> PyNone]
              ELSE IF valid_resp(resp) # "none"
                   THEN [exc |-> valid_resp(resp), acct |-> acct, save |-> FALSE, ret |-> PyNone]
                   ELSE [exc |-> "none", acct |-> resp.data, save |-> TRUE, ret |-> Val(resp.data)]
         ELSE [exc |-> "none", acct |-> acct, save |-> FALSE, ret |-> Val(acct)]

\* lines 136-148 once the POST has been answered: the exception raised out of
\* the coroutine, the new account_info, whether it is saved, the value returned
create_session(resp, acct) ==
    IF resp.kind = "neterr"
    THEN [exc |-> "ClientError", acct |-> acct, save |-> FALSE, ret |-> PyNone]
    ELSE IF resp.status = HTTP_OK
         THEN IF resp.body = "nojson"
              THEN [exc |-> "ContentTypeError", acct |-> acct, save |-> FALSE, ret |-> PyNone]
              ELSE IF valid_resp(resp) # "none"
                   THEN [exc |-> valid_resp(resp), acct |-> acct, save |-> FALSE, ret |-> PyNone]
                   ELSE [exc |-> "none", acct |-> resp.data,
                         save |-> GetUid(resp.data) # None, ret |-> Val(resp.data)]
         ELSE [exc |-> "none", acct |-> acct, save |-> FALSE, ret |-> Val(acct)]

TaskResponse(t) ==
    /\ pc = "wait"
    /\ t \in DOMAIN task
    /\ task[t].pc = "posting"
    /\ Unstarted = {}
    /\ \E resp \in SessionResponses :
          LET r == create_session(resp, account_info)
          IN  /\ account_info' = r.acct
              /\ session_file' = IF r.save THEN save_session_info(r.acct) ELSE session_file
              /\ task' = [task EXCEPT ![t] =
                             IF r.exc # "none"
                             THEN [@ EXCEPT !.pc = "raised", !.exc = r.exc,
                                            !.answer = AnswerKind(resp)]
                             ELSE [@ EXCEPT !.pc = "done", !.result = r.ret,
                                            !.answer = AnswerKind(resp), !.saved = r.save]]
    /\ UNCHANGED <<pc, exc, all_proxies, active_proxies, validated, tasks, done, before, cycles,
                   status_connect, browser_id, uuids, pings>>

\* ------------------------------------------------------ the control loop
\* d[k] of a dict: KeyError when k is not a key
DictGet(d, k) ==
    IF k \in DOMAIN d THEN [exc |-> "none", val |-> d[k]]
    ELSE [exc |-> "KeyError", val |-> k]

\* d.pop(k): KeyError when k is not a key
DictPop(d, k) ==
    IF k \in DOMAIN d THEN [exc |-> "none", d |-> [j \in DOMAIN d \ {k} |-> d[j]]]
    ELSE [exc |-> "KeyError", d |-> d]

\* list.remove(x) for a list of str: drops the first element equal to x,
\* ValueError when there is none
RECURSIVE ListRemove(_, _)
ListRemove(l, x) ==
    IF l = <<>> THEN [exc |-> "ValueError", l |-> l]
    ELSE IF StrKey(Head(l)) = x THEN [exc |-> "none", l |-> Tail(l)]
    ELSE LET r == ListRemove(Tail(l), x)
         IN  [exc |-> r.exc, l |-> <<Head(l)>> \o r.l]

\* task.result(): the returned value, or the task's exception raised again
TaskResult(tk) ==
    IF tk.pc = "raised" THEN [exc |-> tk.exc, ret |-> PyNone]
    ELSE [exc |-> "none", ret |-> tk.result]

Raise(st, e) == [st EXCEPT !.exc = e]

\* lines 176-183: the body of "for task in done" for the Task t, on
\* st = [active, all, tasks, task, exc]
HandleDone(st, t) ==
    LET look == DictGet(st.tasks, TaskKey(t))
    IN  IF look.exc # "none" THEN Raise(st, look.exc)
        ELSE
        LET proxy == look.val
            res == TaskResult(st.task[t])
        IN  IF res.exc # "none" THEN Raise(st, res.exc)
            ELSE IF res.ret.none
            THEN LET rem == ListRemove(st.active, proxy)
                 IN  IF rem.exc # "none" THEN Raise(st, rem.exc)
                     ELSE IF st.all = <<>>
                     THEN Raise([st EXCEPT !.active = rem.l], "IndexError")
                     ELSE LET new_proxy == Head(st.all)
                              ct == create_task([tasks |-> st.tasks, task |-> st.task], new_proxy)
                              pop == DictPop(ct.tasks, TaskKey(t))
                          IN  [active |-> Append(rem.l, new_proxy),
                               all    |-> Tail(st.all),
                               tasks  |-> pop.d,
                               task   |-> ct.task,
                               exc    |-> pop.exc]
            ELSE LET pop == DictPop(st.tasks, TaskKey(t))
                 IN  [st EXCEPT !.tasks = pop.d, !.exc = pop.exc]

\* lines 175-183: the loop over done, in the order the set is iterated
RECURSIVE ForDone(_, _)
ForDone(st, order) ==
    IF order = <<>> \/ st.exc # "none" THEN st
    ELSE ForDone(HandleDone(st, Head(order)), Tail(order))

\* lines 185-187: a task for every active proxy that is not a key of tasks
RECURSIVE Rearm(_, _)
Rearm(st, proxies) ==
    IF proxies = <<>> THEN st
    ELSE IF StrKey(Head(proxies)) \notin DOMAIN st.tasks
         THEN Rearm(create_task(st, Head(proxies)), Tail(proxies))
         ELSE Rearm(st, Tail(proxies))

\* the Tasks in tasks.values() that have finished
Finished == {t \in DOMAIN task : TaskKey(t) \in {tasks[k] : k \in DOMAIN tasks}
                                  /\ task[t].pc \in {"done", "raised"}}

Orders(S) == {o \in [1..Cardinality(S) -> S] : \A i, j \in DOMAIN o : o[i] = o[j] => i = j}

\* asyncio.run(main()) ending with an exception cancels the tasks still running
CancelAll(tk) ==
    [t \in DOMAIN tk |-> IF tk[t].pc \in {"start", "posting"}
                         THEN [tk[t] EXCEPT !.pc = "cancelled"] ELSE tk[t]]

\* lines 173-189: one polling cycle, from the return of asyncio.wait to the
\* sleep; main() is suspended in "wait" during the sleep and the next wait.
\* asyncio.wait raises ValueError for an empty set of tasks.
MainCycle ==
    /\ pc = "wait"
    /\ IF DOMAIN tasks = {}
       THEN /\ pc' = "crashed"
            /\ exc' = "ValueError"
            /\ task' = CancelAll(task)
            /\ UNCHANGED <<all_proxies, active_proxies, tasks, done, before, cycles>>
       ELSE /\ Unstarted = {}
            /\ Finished # {}
            /\ done' = Finished
            /\ before' = [active |-> active_proxies, all |-> all_proxies]
            /\ \E order \in Orders(Finished) :
                  LET st == ForDone([active |-> active_proxies, all |-> all_proxies,
                                     tasks |-> tasks, task |-> task, exc |-> "none"], order)
                      re == Rearm([tasks |-> st.tasks, task |-> st.task], st.active)
                  IN  /\ active_proxies' = st.active
                      /\ all_proxies' = st.all
                      /\ IF st.exc # "none"
                         THEN /\ pc' = "crashed"
                              /\ exc' = st.exc
                              /\ tasks' = st.tasks
                              /\ task' = CancelAll(st.task)
                              /\ UNCHANGED cycles
                         ELSE /\ tasks' = re.tasks
                              /\ task' = re.task
                              /\ cycles' = cycles + 1
                              /\ UNCHANGED <<pc, exc>>
    /\ UNCHANGED <<validated, globals>>

Next ==
    \/ LoadProxies
    \/ ReadToken
    \/ Validate
    \/ StartTasks
    \/ \E t \in 1..(MaxLen + 1) : TaskStart(t)
    \/ \E t \in 1..(MaxLen + 1) : TaskResponse(t)
    \/ MainCycle

Spec == Init /\ [][Next]_vars

\* ------------------------------------------------------------ handle_ping
MaxPings == 2        \* heartbeats of one run of the heartbeat specification

\* the heartbeat answers: as for create-session, and a non-200 answer
\* whose body says code 0
PingResponses ==
    {NetErr, HttpNoBody(403), HttpNoBody(HTTP_OK), HttpNull(HTTP_OK),
     HttpObj(403, TRUE, 0, EmptyDict), HttpObj(HTTP_OK, FALSE, 0, EmptyDict)}
    \cup {HttpObj(HTTP_OK, TRUE, c, EmptyDict) : c \in {-1, 0, 1}}

\* handle_ping setting DISCONNECTED whenever the heartbeat is not a success
handle_ping_reset(resp, sc) ==
    IF resp.kind = "neterr"
    THEN [exc |-> "none", ret |-> FALSE, status |-> DISCONNECTED]
    ELSE IF resp.status = HTTP_OK
         THEN IF resp.body = "nojson" \/ valid_resp(resp) # "none"
              THEN [exc |-> "none", ret |-> FALSE, status |-> DISCONNECTED]
              ELSE IF resp.code = 0
                   THEN [exc |-> "none", ret |-> TRUE, status |-> CONNECTED]
                   ELSE [exc |-> "none", ret |-> FALSE, status |-> DISCONNECTED]
         ELSE [exc |-> "none", ret |-> FALSE, status |-> DISCONNECTED]

\* handle_ping without the test of line 113: any valid response is a success
handle_ping_anycode(resp, sc) ==
    IF resp.kind = "neterr"
    THEN [exc |-> "none", ret |-> FALSE, status |-> sc]
    ELSE IF resp.status = HTTP_OK
         THEN IF resp.body = "nojson" \/ valid_resp(resp) # "none"
              THEN [exc |-> "none", ret |-> FALSE, status |-> sc]
              ELSE [exc |-> "none", ret |-> TRUE, status |-> CONNECTED]
         ELSE [exc |-> "none", ret |-> FALSE, status |-> sc]

\* handle_ping (lines 97-123) for the answer resp, status_connect being sc:
\* every exception, the ValueError of valid_resp included, is caught
handle_ping(resp, sc) ==
    IF resp.kind = "neterr"
    THEN [exc |-> "none", ret |-> FALSE, status |-> sc]
    ELSE IF resp.status = HTTP_OK
         THEN IF resp.body = "nojson" \/ valid_resp(resp) # "none"
              THEN [exc |-> "none", ret |-> FALSE, status |-> sc]
              ELSE IF resp.code = 0
                   THEN [exc |-> "none", ret |-> TRUE, status |-> CONNECTED]
                   ELSE [exc |-> "none", ret |-> FALSE, status |-> sc]
         ELSE [exc |-> "none", ret |-> FALSE, status |-> sc]

\* a call of handle_ping(proxy, token): the request carries the uid and the
\* device identity of the globals
Ping(proxy) ==
    /\ pc = "ping"
    /\ Len(pings) < MaxPings
    /\ \E resp \in PingResponses :
          LET r == handle_ping(resp, status_connect)
          IN  /\ status_connect' = r.status
              /\ pings' = Append(pings,
                     [proxy |-> proxy, id |-> GetUid(account_info), browser_id |-> browser_id,
                      resp |-> resp, ret |-> r.ret, exc |-> r.exc,
                      was |-> status_connect, now |-> r.status])
    /\ UNCHANGED <<pc, exc, all_proxies, active_proxies, validated, tasks, task, done, before,
                   cycles, browser_id, account_info, session_file, uuids>>

\* the heartbeat on its own: the globals as an establish task may leave them
InitPing ==
    /\ pc = "ping"
    /\ exc = "none"
    /\ all_proxies = <<>>
    /\ active_proxies = <<>>
    /\ validated = <<>>
    /\ tasks = <<>>
    /\ task = <<>>
    /\ done = {}
    /\ before = [active |-> <<>>, all |-> <<>>]
    /\ cycles = 0
    /\ status_connect = NONE_CONNECTION
    /\ browser_id \in {None, 1, 2}
    /\ account_info \in SessionData \cup {[uid |-> 1, browser_id |-> 1]}
    /\ session_file = IF GetUid(account_info) # None
                      THEN save_session_info(account_info)
                      ELSE [kind |-> "nofile", data |-> EmptyDict]
    /\ uuids = 2
    /\ pings = <<>>

NextPing == \E proxy \in Proxies : Ping(proxy)

SpecPing == InitPing /\ [][NextPing]_vars

\* ------------------------------------------------------------- the claims
Range(f) == {f[i] : i \in DOMAIN f}

\* a task that ended without an established session: it raised, returned
\* None, or returned account data without a uid
Failed(tk) ==
    \/ tk.pc = "raised"
    \/ tk.pc = "done" /\ (tk.result.none \/ GetUid(tk.result.val) = None)

FailedDone == {t \in done : Failed(task[t])}

\* C1: once a polling cycle has handled its completed tasks, every failed one
\* has had its proxy replaced: with k failures and a backlog of at least k, the
\* first k backlog proxies have moved into active and len(active) is unchanged.
C1_FailureReplaced ==
    LET k == Cardinality(FailedDone)
    IN  (k > 0 /\ Len(before.all) >= k) =>
            /\ all_proxies = SubSeq(before.all, k + 1, Len(before.all))
            /\ Len(active_proxies) = Len(before.active)
            /\ \A i \in 1..k : before.all[i] \in Range(active_proxies)

\* C2: candidates [p1,p2,p3] with p2 failing validation give active = [p1,p3]
\* and an empty backlog; with the backlog exhausted a cycle with k failures
\* shrinks active by k and the control loop keeps running.
C2_ShrinkAndContinue ==
    /\ (/\ pc = "wait"
        /\ done = {}
        /\ [i \in DOMAIN validated |-> validated[i].proxy] = <<1, 2, 3>>
        /\ [i \in DOMAIN validated |-> validated[i].success] = <<TRUE, FALSE, TRUE>>)
       => (active_proxies = <<1, 3>> /\ all_proxies = <<>>)
    /\ (done # {} /\ before.all = <<>>)
       => (pc = "wait" /\ Len(active_proxies) = Len(before.active) - Cardinality(FailedDone))

\* C3: when a task has failed (raised or ended without a session) the
\* control loop is still running and no other task has been ended.
C3_LoopSurvivesTaskFailure ==
    (\E t \in DOMAIN task : Failed(task[t]))
        => (pc = "wait" /\ \A t \in DOMAIN task : task[t].pc # "cancelled")

\* C4: no proxy is both in active and in the sequence replacements are
\* popped from.
C4_ActiveBacklogDisjoint ==
    Range(active_proxies) \cap Range(all_proxies) = {}

\* the validation loop is over and no polling cycle has run
ValidationOver ==
    /\ pc \in {"validate", "wait", "exited", "crashed"}
    /\ Len(validated) = Len(all_proxies)
    /\ done = {}

Successes == {j \in DOMAIN validated : validated[j].success}

\* C5: when a candidate validated, startup does not exit and the active set
\* is non-empty, each of its entries is a proxy with a successful validation,
\* and it is no longer than the number of successful validations.
C5_ActiveAfterStartup ==
    (ValidationOver /\ Successes # {}) =>
        /\ pc # "exited"
        /\ active_proxies # <<>>
        /\ \A i \in DOMAIN active_proxies :
              \E j \in Successes : validated[j].proxy = active_proxies[i]
        /\ Len(active_proxies) <= Cardinality(Successes)

C5_Witness ==
    /\ pc = "wait"
    /\ Len(validated) = 3
    /\ Cardinality(Successes) = 2
    /\ Len(active_proxies) = 2

\* C6: while no candidate has validated, no task exists and the polling loop
\* is not entered; when validation ends without a valid proxy the only step
\* is the exit.
C6_NoProxyNoPolling ==
    [][/\ Successes' = {} => (task' = <<>> /\ pc' \notin {"wait", "crashed"} /\ done' = {})
       /\ (pc = "validate" /\ Len(validated) = Len(all_proxies) /\ Successes = {})
             => (pc' = "exited" /\ exc' = "SystemExit")]_vars

C6_Witness ==
    /\ pc = "exited"
    /\ Len(validated) = 2
    /\ Successes = {}

\* C7: handle_ping returns True exactly for a 200 answer whose code is 0, and
\* then status_connect is CONNECTED; every other answer gives False without
\* an exception and leaves status_connect as it was.
C7_HeartbeatOutcome ==
    \A i \in DOMAIN pings :
        LET h == pings[i]
            ok == h.resp.kind = "http" /\ h.resp.status = HTTP_OK /\ h.resp.body = "obj"
                  /\ h.resp.hascode /\ h.resp.code = 0
        IN  /\ h.exc = "none"
            /\ h.ret <=> ok
            /\ h.ret => h.now = CONNECTED
            /\ ~h.ret => h.now = h.was

C7_Witness ==
    /\ Len(pings) = 2
    /\ pings[1].resp = HttpObj(HTTP_OK, TRUE, -1, EmptyDict)
    /\ ~pings[1].ret
    /\ pings[1].now = NONE_CONNECTION
    /\ pings[2].ret
    /\ status_connect = CONNECTED

\* C8: a task whose load met a malformed or unreadable session.json did what
\* a task without a file does: it did not raise in load, generated a new
\* device identity and issued one create-session request.
FirstRun(tk) ==
    /\ tk.posts = 1
    /\ tk.device # None
    /\ tk.pc \in {"posting", "done", "raised", "cancelled"}
    /\ tk.pc = "raised" => tk.exc \in {"ClientError", "ContentTypeError", "ValueError"}

C8_MalformedIsAbsent ==
    \A t \in DOMAIN task :
        /\ task[t].load \in {"malformed", "unreadable", "nofile"} => FirstRun(task[t])
        /\ \A u \in DOMAIN task : (task[t].device # None /\ t # u) => task[t].device # task[u].device

C8_Witness ==
    \E t \in DOMAIN task :
        /\ task[t].load = "malformed"
        /\ task[t].pc = "done"
        /\ task[t].saved

\* C9: every validation call returned without raising, True exactly for a
\* success response, and a failed candidate did not stop the validation of
\* the candidates after it.
C9_ValidateNeverRaises ==
    /\ \A j \in DOMAIN validated :
          /\ validated[j].exc = "none"
          /\ validated[j].ret <=> validated[j].success
    /\ pc = "crashed" => task # <<>>
    /\ (pc = "wait" /\ done = {}) => Len(validated) = Len(all_proxies)

C9_Witness ==
    /\ pc = "wait"
    /\ Len(validated) = 3
    /\ ~validated[1].ret
    /\ validated[3].ret

\* C10: a task whose session was adopted or created has sent a heartbeat
\* through its proxy.
C10_HeartbeatAfterSession ==
    \A t \in DOMAIN task :
        (task[t].pc = "done" /\ GetUid(task[t].result.val) # None)
            => \E i \in DOMAIN pings : pings[i].proxy = task[t].proxy

\* C11: the proxy the next promotion takes, the front of the sequence that
\* replacements are popped from, is a proxy not yet assigned to active; the
\* promotions of a cycle are the front of that sequence in order.
C11_FifoPromotion ==
    /\ (pc = "wait" /\ all_proxies # <<>>) => Head(all_proxies) \notin Range(active_proxies)
    /\ done # {} =>
          LET k == Len(before.all) - Len(all_proxies)
              n == Len(active_proxies)
          IN  /\ k >= 0
              /\ all_proxies = SubSeq(before.all, k + 1, Len(before.all))
              /\ \A i \in 1..k : active_proxies[n - k + i] = before.all[i]

\* the Tasks that have been created and have not ended
InFlight == {t \in DOMAIN task : task[t].pc \in {"start", "posting"}}

\* the Tasks that are values of the dict tasks
Tracked == {t \in DOMAIN task : \E k \in DOMAIN tasks : tasks[k] = TaskKey(t)}

\* C12: once a polling cycle has handled its completed tasks, every proxy in
\* active has a tracked task that is in flight.
C12_RearmedAfterCycle ==
    done # {} =>
        \A i \in DOMAIN active_proxies :
            \E t \in InFlight \cap Tracked : task[t].proxy = active_proxies[i]

\* C13: every task in flight is tracked, every tracked task is filed under
\* its own proxy and that proxy is in active, and no proxy has two tasks in
\* flight.
C13_TasksBoundOneToOne ==
    /\ InFlight \subseteq Tracked
    /\ \A k \in DOMAIN tasks :
          /\ k.kind = "str"
          /\ k.id \in Range(active_proxies)
          /\ task[tasks[k].id].proxy = k.id
    /\ \A t, u \in InFlight : task[t].proxy = task[u].proxy => t = u

\* a session record is present: session.json parses to a non-empty object
RecordPresent == session_file.kind = "json" /\ Truthy(session_file.data)

\* C14: a task that starts with a record present adopts the record and its
\* device identity, ends at once and issues no create-session request; with
\* no record it generates a new device identity and issues one request, never
\* a second one; session.json is written only by a task whose request was
\* answered with a uid, and then holds the data of that answer.
C14_AdoptOrCreate ==
    [][\A t \in DOMAIN task :
        /\ (task[t].pc = "start" /\ task'[t].pc # "start") =>
              IF RecordPresent
              THEN /\ task'[t].pc = "done"
                   /\ task'[t].posts = 0
                   /\ task'[t].result = Val(session_file.data)
                   /\ account_info' = session_file.data
                   /\ browser_id' = GetBrowserId(session_file.data)
                   /\ uuids' = uuids
              ELSE /\ task'[t].pc = "posting"
                   /\ task'[t].posts = 1
                   /\ task'[t].device = browser_id'
                   /\ browser_id' > uuids
        /\ task[t].pc = "posting" => task'[t].posts = 1
        /\ (~task[t].saved /\ task'[t].saved) =>
              /\ task[t].pc = "posting"
              /\ task'[t].pc = "done"
              /\ GetUid(task'[t].result.val) # None
              /\ session_file' = [kind |-> "json", data |-> task'[t].result.val]
        /\ session_file' # session_file => \E u \in DOMAIN task : ~task[u].saved /\ task'[u].saved
      ]_vars

C14_Witness ==
    \E t, u \in DOMAIN task :
        /\ task[t].load = "nofile" /\ task[t].saved
        /\ task[u].load = "nofile" /\ task[u].pc = "done" /\ task[u].answer = "ok"
        /\ ~task[u].saved /\ task[u].posts = 1

\* the tasks that read session.json, the tasks waiting for create-session
Readers == {t \in DOMAIN task : task[t].load # "notyet"}
Posting == {t \in DOMAIN task : task[t].pc = "posting"}

\* C15 as stated: at most one task is establishing a session at a time and
\* session.json is read by at most one task of the process.
C15_SingleWriter ==
    /\ Cardinality(Posting) <= 1
    /\ Cardinality(Readers) <= 1

\* C15 amended: every task reads session.json itself, so several tasks may
\* be establishing at once, each with one request; every task whose request
\* was answered with a uid wrote session.json, and after a write the file
\* holds a record with a uid (the last one written).
C15_PerTaskEstablish ==
    /\ \A t \in DOMAIN task :
          /\ task[t].pc # "start" => t \in Readers
          /\ task[t].posts <= 1
          /\ (task[t].pc = "done" /\ task[t].answer = "ok" /\ GetUid(task[t].result.val) # None)
                => task[t].saved
          /\ task[t].saved =>
                (session_file.kind = "json" /\ GetUid(session_file.data) # None)
    /\ Cardinality(Posting) <= Len(active_proxies)

C15_Witness ==
    \E t, u \in DOMAIN task :
        /\ t # u
        /\ task[t].saved
        /\ task[u].saved

\* C16: once a task has saved its session, session.json holds the device
\* identity that task generated, and all tasks that generated or adopted an
\* identity have the same one.
C16_DeviceIdentityPersisted ==
    /\ (\E t \in DOMAIN task : task[t].saved) =>
          \E t \in DOMAIN task : task[t].saved /\ GetBrowserId(session_file.data) = task[t].device
    /\ \A t, u \in DOMAIN task :
          (task[t].device # None /\ task[u].device # None) => task[t].device = task[u].device

C18_ConnectionMonotonic ==
    /\ status_connect = NONE_CONNECTION
    /\ [][/\ status_connect' # DISCONNECTED
          /\ status_connect = CONNECTED => status_connect' = CONNECTED
          /\ status_connect' = CONNECTED <=> \E i \in DOMAIN pings' : pings'[i].ret]_vars

C18_Witness ==
    /\ Len(pings) = 2
    /\ pings[1].ret
    /\ ~pings[2].ret
    /\ status_connect = CONNECTED

\* C19: once a cycle has handled its completed tasks, the lookup of each of
\* them succeeded and its entry has left the dict tasks.
C19_RegistryResolves ==
    done # {} =>
        /\ exc # "KeyError"
        /\ \A t \in done : t \notin Tracked

====
